---- MODULE Spec2Model ----
(***************************************************************************)
(* Scene replication manager of rbfx: NetworkObjectRegistry and            *)
(* ReplicationManager (Source/Urho3D/Replica/ReplicationManager.cpp).      *)
(*                                                                         *)
(* Every C++ method is an operator from a program state (a record with one *)
(* field per member variable) to the program state after the call; an      *)
(* action applies one public entry point to the current state.             *)
(***************************************************************************)
EXTENDS Integers, Sequences, FiniteSets, TLC

\* ------------------------------------------------------------------ bounds
MaxObjects == 3
MaxManagedObjects == 2
MaxConnections == 2
MaxPayload == 2
MaxTimeStep == 2

\* ------------------------------------------------------------------ values
None == 0
NoneId == [index |-> 0, version |-> 0]

Objects == 1..MaxObjects
Indices == 1..MaxObjects
Connections == 1..MaxConnections
Payloads == 1..MaxPayload
TimeSteps == 1..MaxTimeStep
MessageIds == {"MSG_CONFIGURE", "MSG_SCENE_CLOCK", "MSG_OTHER"}
Modes == {"Standalone", "Server", "Client"}

VARIABLES
    mode,                   \* ReplicationManager::mode_
    server,                 \* ReplicationManager::server_   (<<>> when null)
    client,                 \* ReplicationManager::client_   (<<>> when nullopt)
    recentlyAddedObjects,   \* standalone_.recentlyAddedObjects_
    components,             \* tracked components, in registration order
    entries,                \* reference index -> registered object
    versions,               \* reference index -> version last issued
    reference,              \* object -> its NetworkId (kept by a removed object)
    nodeParent,             \* object -> object owning the parent scene node
    parentNetworkObject,    \* object -> NetworkId of its linked parent
    networkObjectsDirty,    \* NetworkObjectRegistry::networkObjectsDirty_
    clockSynchronized,      \* connection -> IsClockSynchronized()
    outbox,                 \* messages the last step wrote to connections
    handled,                \* value the last step's ProcessMessage returned
    lastFlush,              \* what the last step's UpdateNetworkObjects did
    lastCall,               \* manager entry point called in the last step
    signals,                \* OnNetworkObjectAdded / Removed published in the last step
    calls,                  \* calls the last step made on objects, scene, replicators
    addedSinceTick,         \* history: objects added in Standalone that no tick or StartX call has met
    initializedStandalone,  \* history, kept when present: registered objects initialized as standalone
    networkObjects,         \* GetSortedNetworkObjects: the output vector
    sortIndex,              \* GetSortedNetworkObjects: the loop variable i
    sortPc                  \* GetSortedNetworkObjects: position in the method

vars == <<mode, server, client, recentlyAddedObjects, components, entries,
          versions, reference, nodeParent, parentNetworkObject,
          networkObjectsDirty, clockSynchronized, outbox, handled, lastFlush,
          lastCall, signals, calls, addedSinceTick, initializedStandalone,
          networkObjects, sortIndex, sortPc>>

\* The program state as one record.
Cur ==
    [mode |-> mode, server |-> server, client |-> client,
     recentlyAddedObjects |-> recentlyAddedObjects,
     components |-> components, entries |-> entries, versions |-> versions,
     reference |-> reference, nodeParent |-> nodeParent,
     parentNetworkObject |-> parentNetworkObject,
     networkObjectsDirty |-> networkObjectsDirty,
     clockSynchronized |-> clockSynchronized, outbox |-> outbox,
     handled |-> handled, lastFlush |-> lastFlush, lastCall |-> lastCall,
     signals |-> signals, calls |-> calls, addedSinceTick |-> addedSinceTick]

Becomes(m) ==
    /\ mode' = m.mode
    /\ server' = m.server
    /\ client' = m.client
    /\ recentlyAddedObjects' = m.recentlyAddedObjects
    /\ components' = m.components
    /\ entries' = m.entries
    /\ versions' = m.versions
    /\ reference' = m.reference
    /\ nodeParent' = m.nodeParent
    /\ parentNetworkObject' = m.parentNetworkObject
    /\ networkObjectsDirty' = m.networkObjectsDirty
    /\ clockSynchronized' = m.clockSynchronized
    /\ outbox' = m.outbox
    /\ handled' = m.handled
    /\ lastFlush' = m.lastFlush
    /\ lastCall' = m.lastCall
    /\ signals' = m.signals
    /\ calls' = m.calls
    /\ addedSinceTick' = m.addedSinceTick \cap {m.components[i] : i \in 1..Len(m.components)}
    /\ initializedStandalone' =
           IF initializedStandalone = <<>> THEN <<>>
           ELSE <<(initializedStandalone[1]
                       \cup {m.calls[i].on :
                                i \in {j \in 1..Len(m.calls) :
                                          m.calls[j].call = "InitializeStandalone"}})
                  \cap {m.components[i] : i \in 1..Len(m.components)}>>
    /\ UNCHANGED <<networkObjects, sortIndex, sortPc>>

NoFlush == [cleared |-> {}, relinked |-> <<>>]

NoCall == [op |-> "none", from |-> "none"]

\* A call the program makes on a collaborator (an object, the scene, a
\* connection, a replicator) is recorded in the order it is made: on:
\* the object or connection called (None for the scene and the replicators),
\* arg: its mode, event or message argument, data: its numeric arguments.
Call(name, on, arg, data) == [call |-> name, on |-> on, arg |-> arg, data |-> data]

Record(m, call) == [m EXCEPT !.calls = Append(@, call)]

\* ------------------------------------------- tracked component registry
SeqToSet(s) == {s[i] : i \in 1..Len(s)}

RemoveFromSeq(s, x) == SelectSeq(s, LAMBDA y : y # x)

IsRegistered(m, o) == o \in SeqToSet(m.components)

GetTrackedComponentByReferenceIndex(m, index) ==
    IF index \in Indices THEN m.entries[index] ELSE None

GetTrackedComponentByReference(m, id, checkVersion) ==
    IF id.index \notin Indices THEN None
    ELSE IF m.entries[id.index] = None THEN None
    ELSE IF checkVersion /\ m.versions[id.index] # id.version THEN None
    ELSE m.entries[id.index]

FreeIndices(m) == {i \in Indices : m.entries[i] = None}

AllocateIndex(m) == CHOOSE i \in FreeIndices(m) : \A j \in FreeIndices(m) : i <= j

BaseOnComponentAdded(m, o) ==
    LET index == AllocateIndex(m)
        version == m.versions[index] + 1
    IN [m EXCEPT !.entries[index] = o,
                 !.versions[index] = version,
                 !.reference[o] = [index |-> index, version |-> version],
                 !.components = Append(m.components, o)]

BaseOnComponentRemoved(m, o) ==
    [m EXCEPT !.entries[m.reference[o].index] = None,
              !.components = RemoveFromSeq(m.components, o)]

\* ------------------------------------------------ NetworkObjectRegistry
\* Mutant of GetNetworkObject: the version of the reference is never compared.
GetNetworkObjectIgnoringVersion(m, networkId, checkVersion) ==
    GetTrackedComponentByReference(m, networkId, FALSE)

GetNetworkObject(m, networkId, checkVersion) ==
    GetTrackedComponentByReference(m, networkId, checkVersion)

GetNetworkObjectByIndex(m, networkIndex) ==
    GetTrackedComponentByReferenceIndex(m, networkIndex)

GetNetworkObjects(m) == m.components

\* Element k + 1 of the sequence is element k of the C++ vector.
ResizeDirty(dirty, size) ==
    IF Len(dirty) >= size THEN SubSeq(dirty, 1, size)
    ELSE dirty \o [k \in 1..(size - Len(dirty)) |-> FALSE]

IsDirty(m, index) ==
    index + 1 <= Len(m.networkObjectsDirty) /\ m.networkObjectsDirty[index + 1]

MarkDirty(m, index) ==
    IF index + 1 <= Len(m.networkObjectsDirty)
    THEN [m EXCEPT !.networkObjectsDirty[index + 1] = TRUE]
    ELSE m

GetParentNetworkObject(m, o) ==
    GetNetworkObject(m, m.parentNetworkObject[o], TRUE)

GetChildrenNetworkObjects(m, o) ==
    SelectSeq(m.components, LAMBDA c : GetParentNetworkObject(m, c) = o)

FindParentNetworkObject(m, o) == m.nodeParent[o]

UpdateObjectHierarchy(m, o) ==
    LET newParent == FindParentNetworkObject(m, o)
    IN Record([m EXCEPT !.parentNetworkObject[o] =
                            IF newParent = None THEN NoneId
                            ELSE m.reference[newParent],
                        !.lastFlush.relinked = Append(m.lastFlush.relinked, o)],
              Call("UpdateObjectHierarchy", o, "", <<>>))

\* networkObject->GetNode()->GetWorldTransform()
GetWorldTransform(m, o) == Record(m, Call("GetWorldTransform", o, "", <<>>))

\* Mutant of UpdateNetworkObjectAt: the world transform is not recomputed.
UpdateNetworkObjectAtWithoutTransform(m, index) ==
    LET networkObject == GetNetworkObjectByIndex(m, index)
        m1 == IF networkObject # None
              THEN UpdateObjectHierarchy(m, networkObject)
              ELSE m
    IN [m1 EXCEPT !.networkObjectsDirty[index + 1] = FALSE,
                  !.lastFlush.cleared = @ \cup {index}]

\* Mutant of QueueNetworkObjectUpdate: the occupant of the slot is not compared
\* with the object.
QueueNetworkObjectUpdateByIndex(m, o) ==
    LET networkId == m.reference[o]
    IN IF GetNetworkObjectByIndex(m, networkId.index) = None
       THEN m
       ELSE MarkDirty(m, networkId.index)

QueueNetworkObjectUpdate(m, o) ==
    LET networkId == m.reference[o]
    IN IF GetNetworkObject(m, networkId, TRUE) # o
       THEN m
       ELSE MarkDirty(m, networkId.index)

\* A signal is recorded with what its listeners can see when it fires: whether
\* the object resolves by its NetworkId, its parent object and parent node, and
\* the dirty vector, next to the dirty vector the handler started from.
PublishSignal(m, kind, o, dirtyAtEntry) ==
    [m EXCEPT !.signals =
        Append(@, [kind |-> kind, object |-> o,
                   resolves |-> GetNetworkObject(m, m.reference[o], TRUE) = o,
                   parent |-> GetParentNetworkObject(m, o),
                   nodeParent |-> m.nodeParent[o],
                   dirtyAtEntry |-> dirtyAtEntry,
                   dirty |-> m.networkObjectsDirty])]

OnNetworkObjectAdded(m, o, dirtyAtEntry) ==
    PublishSignal(m, "added", o, dirtyAtEntry)

OnNetworkObjectRemoved(m, o, dirtyAtEntry) ==
    PublishSignal(m, "removed", o, dirtyAtEntry)

\* Mutant of RegistryOnComponentAdded: the signal is published before the flag
\* of the new index is set.
RegistryOnComponentAddedSignalFirst(m, o) ==
    LET m1 == BaseOnComponentAdded(m, o)
        index == m1.reference[o].index
        m2 == IF Len(m1.networkObjectsDirty) <= index
              THEN [m1 EXCEPT !.networkObjectsDirty =
                                  ResizeDirty(m1.networkObjectsDirty, index + 1)]
              ELSE m1
        m3 == OnNetworkObjectAdded(m2, o, m.networkObjectsDirty)
    IN [m3 EXCEPT !.networkObjectsDirty[index + 1] = TRUE]

\* Mutant of RegistryOnComponentAdded: the vector is grown to index instead of
\* index + 1 elements.
RegistryOnComponentAddedResizeToIndex(m, o) ==
    LET m1 == BaseOnComponentAdded(m, o)
        index == m1.reference[o].index
        m2 == IF Len(m1.networkObjectsDirty) <= index
              THEN [m1 EXCEPT !.networkObjectsDirty =
                                  ResizeDirty(m1.networkObjectsDirty, index)]
              ELSE m1
        m3 == MarkDirty(m2, index)
    IN OnNetworkObjectAdded(m3, o, m.networkObjectsDirty)

RegistryOnComponentAdded(m, o) ==
    LET m1 == BaseOnComponentAdded(m, o)
        index == m1.reference[o].index
        m2 == IF Len(m1.networkObjectsDirty) <= index
              THEN [m1 EXCEPT !.networkObjectsDirty =
                                  ResizeDirty(m1.networkObjectsDirty, index + 1)]
              ELSE m1
        m3 == [m2 EXCEPT !.networkObjectsDirty[index + 1] = TRUE]
    IN OnNetworkObjectAdded(m3, o, m.networkObjectsDirty)

\* Mutant of RegistryOnComponentRemoved: the object is unlinked before the
\* signal is published.
RegistryOnComponentRemovedUnlinkFirst(m, o) ==
    LET parentObject == GetParentNetworkObject(m, o)
        m1 == IF parentObject # None /\ m.reference[parentObject] # NoneId
              THEN QueueNetworkObjectUpdate(m, parentObject)
              ELSE m
    IN OnNetworkObjectRemoved(BaseOnComponentRemoved(m1, o), o,
                              m.networkObjectsDirty)

\* Mutant of RegistryOnComponentRemoved: the flag of the removed object's own
\* index is dropped with the object.
RegistryOnComponentRemovedClearingFlag(m, o) ==
    LET parentObject == GetParentNetworkObject(m, o)
        m1 == IF parentObject # None /\ m.reference[parentObject] # NoneId
              THEN QueueNetworkObjectUpdate(m, parentObject)
              ELSE m
        m2 == OnNetworkObjectRemoved(m1, o, m.networkObjectsDirty)
        m3 == BaseOnComponentRemoved(m2, o)
    IN [m3 EXCEPT !.networkObjectsDirty[m.reference[o].index + 1] = FALSE]

RegistryOnComponentRemoved(m, o) ==
    LET parentObject == GetParentNetworkObject(m, o)
        m1 == IF parentObject # None /\ m.reference[parentObject] # NoneId
              THEN QueueNetworkObjectUpdate(m, parentObject)
              ELSE m
        m2 == OnNetworkObjectRemoved(m1, o, m.networkObjectsDirty)
    IN BaseOnComponentRemoved(m2, o)

\* Mutant of UpdateNetworkObjectAt: the flag of an index that no longer resolves
\* is left set.
UpdateNetworkObjectAtResolved(m, index) ==
    LET networkObject == GetNetworkObjectByIndex(m, index)
    IN IF networkObject # None
       THEN [GetWorldTransform(UpdateObjectHierarchy(m, networkObject),
                               networkObject)
                EXCEPT !.networkObjectsDirty[index + 1] = FALSE,
                       !.lastFlush.cleared = @ \cup {index}]
       ELSE m

\* One iteration of the loop, for a flagged index.
UpdateNetworkObjectAt(m, index) ==
    LET networkObject == GetNetworkObjectByIndex(m, index)
        m1 == IF networkObject # None
              THEN GetWorldTransform(UpdateObjectHierarchy(m, networkObject),
                                     networkObject)
              ELSE m
    IN [m1 EXCEPT !.networkObjectsDirty[index + 1] = FALSE,
                  !.lastFlush.cleared = @ \cup {index}]

RECURSIVE UpdateNetworkObjectsFrom(_, _)
UpdateNetworkObjectsFrom(m, index) ==
    IF index >= Len(m.networkObjectsDirty) THEN m
    ELSE IF ~m.networkObjectsDirty[index + 1]
    THEN UpdateNetworkObjectsFrom(m, index + 1)
    ELSE UpdateNetworkObjectsFrom(UpdateNetworkObjectAt(m, index), index + 1)

UpdateNetworkObjects(m) ==
    UpdateNetworkObjectsFrom([m EXCEPT !.lastFlush = NoFlush], 0)

\* Mutant of EnumerateRoots: every tracked component is taken for a root.
EnumerateRootsAll(m) == m.components

\* Enumerate roots: the tracked components without a parent.
EnumerateRoots(m) ==
    SelectSeq(m.components, LAMBDA o : GetParentNetworkObject(m, o) = None)

\* Mutant of PushChildren: the loop reads element 0 on every iteration.
PushChildrenOfFirst(m, sorted, i) ==
    sorted \o GetChildrenNetworkObjects(m, sorted[1])

\* One iteration of the second loop: the children of element i (counted from 0)
\* are pushed to the back of the vector.
PushChildren(m, sorted, i) ==
    sorted \o GetChildrenNetworkObjects(m, sorted[i + 1])

RECURSIVE EnumerateChildren(_, _, _)
EnumerateChildren(m, sorted, i) ==
    IF i >= Len(sorted) THEN sorted
    ELSE EnumerateChildren(m, PushChildren(m, sorted, i), i + 1)

GetSortedNetworkObjects(m) == EnumerateChildren(m, EnumerateRoots(m), 0)

\* -------------------------------------------------- ReplicationManager
IsStandalone(m) == m.mode = "Standalone"

ManagerOnComponentAdded(m, o) ==
    LET m1 == RegistryOnComponentAdded(m, o)
    IN IF IsStandalone(m1)
       THEN [m1 EXCEPT !.recentlyAddedObjects = @ \cup {m1.reference[o]}]
       ELSE m1

\* Mutant of ManagerOnComponentRemoved: the removed object's NetworkId stays in
\* the recently-added set.
ManagerOnComponentRemovedKeepingId(m, o) ==
    RegistryOnComponentRemoved(m, o)

ManagerOnComponentRemoved(m, o) ==
    LET m1 == IF IsStandalone(m)
              THEN [m EXCEPT !.recentlyAddedObjects = @ \ {m.reference[o]}]
              ELSE m
    IN RegistryOnComponentRemoved(m1, o)

\* Node::Remove(): the node's component leaves the scene, then its child nodes.
RECURSIVE RemoveNode(_, _)
RECURSIVE RemoveNodes(_, _)
RemoveNode(m, o) ==
    LET m1 == ManagerOnComponentRemoved(m, o)
        m2 == [m1 EXCEPT !.nodeParent[o] = None,
                         !.parentNetworkObject[o] = NoneId]
        children == SelectSeq(m2.components, LAMBDA c : m2.nodeParent[c] = o)
    IN RemoveNodes(m2, children)

RemoveNodes(m, nodes) ==
    IF nodes = <<>> THEN m
    ELSE RemoveNodes(IF IsRegistered(m, Head(nodes))
                     THEN RemoveNode(m, Head(nodes))
                     ELSE m,
                     Tail(nodes))

\* Mutant of RemoveAllNetworkObjects: a bulk clear of the registry instead of
\* the removal of every node.
RemoveAllNetworkObjectsBulk(m) ==
    [m EXCEPT !.components = <<>>,
              !.entries = [i \in Indices |-> None],
              !.nodeParent = [o \in Objects |-> None],
              !.parentNetworkObject = [o \in Objects |-> NoneId],
              !.networkObjectsDirty = <<>>]

RemoveAllNetworkObjects(m) ==
    LET nodesToRemove == GetNetworkObjects(m)
        m1 == RemoveNodes(m, nodesToRemove)
    IN [m1 EXCEPT !.networkObjectsDirty = <<>>]


RECURSIVE QueueNetworkObjectUpdates(_, _)
QueueNetworkObjectUpdates(m, queued) ==
    IF queued = {} THEN m
    ELSE LET o == CHOOSE x \in queued : TRUE
         IN QueueNetworkObjectUpdates(
                QueueNetworkObjectUpdate(
                    Record(m, Call("QueueNetworkObjectUpdate", o, "", <<>>)), o),
                queued \ {o})

\* ServerReplicator / ClientReplica scene processing; queued: the objects it asks
\* the registry to re-link.
ServerProcessSceneUpdate(m, eventType, queued) ==
    QueueNetworkObjectUpdates(
        Record(m, Call("ServerReplicator::ProcessSceneUpdate", None, eventType, <<>>)),
        queued)

ReplicaProcessSceneUpdate(m, eventType, queued) ==
    QueueNetworkObjectUpdates(
        Record(m, Call("ClientReplica::ProcessSceneUpdate", None, eventType, <<>>)),
        queued)

SetNetworkMode(m, o, networkMode) ==
    Record(m, Call("SetNetworkMode", o, networkMode, <<>>))

InitializeStandalone(m, o) ==
    Record(m, Call("InitializeStandalone", o, "", <<>>))

\* The loop over the recently-added set; the set's iteration order is not
\* specified, the ids are taken by ascending index.
RECURSIVE InitializeRecentlyAdded(_, _)
InitializeRecentlyAdded(m, ids) ==
    IF ids = {} THEN m
    ELSE LET networkId == CHOOSE x \in ids : \A y \in ids : x.index <= y.index
             networkObject == GetNetworkObject(m, networkId, TRUE)
             m1 == IF networkObject = None
                   THEN Record(m, Call("URHO3D_ASSERTLOG", None,
                                       "Cannot find recently added NetworkObject",
                                       <<>>))
                   ELSE InitializeStandalone(
                            SetNetworkMode(m, networkObject, "Standalone"),
                            networkObject)
         IN InitializeRecentlyAdded(m1, ids \ {networkId})

InitializeObjectsStandalone(m) ==
    [InitializeRecentlyAdded(m, m.recentlyAddedObjects)
        EXCEPT !.recentlyAddedObjects = {}]

\* scene->SendEvent(eventType, eventData) with eventData[P_TIMESTEP_REPLICA] and
\* eventData[P_TIMESTEP_INPUT] as data; queued: the objects the listeners of the
\* event ask the registry to re-link.
SendSceneNetworkUpdate(m, eventType, timeStepReplica, timeStepInput, queued) ==
    QueueNetworkObjectUpdates(
        Record(m, Call("SendEvent", None, eventType,
                       <<timeStepReplica, timeStepInput>>)),
        queued)

\* Mutant of HandleSceneUpdate: in Standalone the event is broadcast before the
\* recently added objects are initialized.
HandleSceneUpdateBroadcastingFirst(m, eventType, timeStep, queued) ==
    CASE m.mode = "Standalone" ->
            InitializeObjectsStandalone(
                SendSceneNetworkUpdate(m, eventType, timeStep, timeStep, queued))
      [] m.mode = "Server" -> ServerProcessSceneUpdate(m, eventType, queued)
      [] m.mode = "Client" ->
            IF m.client[1].replica # <<>>
            THEN ReplicaProcessSceneUpdate(m, eventType, queued)
            ELSE m
      [] OTHER -> m

\* Mutant of HandleSceneUpdate: a client delegates the tick whether or not its
\* replica exists.
HandleSceneUpdateWithoutReplicaCheck(m, eventType, timeStep, queued) ==
    CASE m.mode = "Standalone" ->
            SendSceneNetworkUpdate(InitializeObjectsStandalone(m), eventType,
                                   timeStep, timeStep, queued)
      [] m.mode = "Server" -> ServerProcessSceneUpdate(m, eventType, queued)
      [] m.mode = "Client" -> ReplicaProcessSceneUpdate(m, eventType, queued)
      [] OTHER -> m

HandleSceneUpdate(m, eventType, timeStep, queued) ==
    CASE m.mode = "Standalone" ->
            SendSceneNetworkUpdate(InitializeObjectsStandalone(m), eventType,
                                   timeStep, timeStep, queued)
      [] m.mode = "Server" -> ServerProcessSceneUpdate(m, eventType, queued)
      [] m.mode = "Client" ->
            IF m.client[1].replica # <<>>
            THEN ReplicaProcessSceneUpdate(m, eventType, queued)
            ELSE m
      [] OTHER -> m

OnSceneUpdate(m, timeStep, queued) ==
    HandleSceneUpdate(m, "E_SCENENETWORKUPDATE", timeStep, queued)

\* Mutant of OnScenePostUpdate: the dirty set is flushed before the tick's
\* processing.
OnScenePostUpdateFlushingFirst(m, timeStep, queued) ==
    HandleSceneUpdate(UpdateNetworkObjects(m), "E_SCENENETWORKPOSTUPDATE", timeStep,
                      queued)

OnScenePostUpdate(m, timeStep, queued) ==
    UpdateNetworkObjects(
        HandleSceneUpdate(m, "E_SCENENETWORKPOSTUPDATE", timeStep, queued))

\* Mutant of Stop: the server replicator is not released.
StopLeavingServer(m) ==
    [m EXCEPT !.client = <<>>,
              !.recentlyAddedObjects = {},
              !.mode = "Standalone"]

\* Mutant of Stop: the standalone bookkeeping is not reset.
StopKeepingRecentlyAdded(m) ==
    [m EXCEPT !.client = <<>>,
              !.server = <<>>,
              !.mode = "Standalone"]

Stop(m) ==
    [m EXCEPT !.client = <<>>,
              !.server = <<>>,
              !.recentlyAddedObjects = {},
              !.mode = "Standalone"]

\* Mutant of StartStandalone: the registered objects are left as they are.
StartStandaloneWithoutInitialization(m) ==
    [Stop(m) EXCEPT !.mode = "Standalone"]

RECURSIVE InitializeAllStandalone(_, _)
InitializeAllStandalone(m, objects) ==
    IF objects = <<>> THEN m
    ELSE InitializeAllStandalone(
             InitializeStandalone(SetNetworkMode(m, Head(objects), "Standalone"),
                                  Head(objects)),
             Tail(objects))

StartStandalone(m) ==
    InitializeAllStandalone([Stop(m) EXCEPT !.mode = "Standalone"],
                            GetNetworkObjects(m))

ServerReplicator == [connections |-> {}]

\* Mutant of StartServer: the previous mode is not stopped.
StartServerWithoutStop(m) ==
    [m EXCEPT !.mode = "Server",
              !.server = <<ServerReplicator>>]

StartServer(m) ==
    [Stop(m) EXCEPT !.mode = "Server",
                    !.server = <<ServerReplicator>>]

ClientData(connectionToServer) ==
    [connection |-> connectionToServer, ackMagic |-> None,
     serverSettings |-> None, initialClock |-> None, replica |-> <<>>]

\* Mutant of StartClient: a manager that is a client already keeps what its
\* handshake has collected and only binds the new connection.
StartClientKeepingHandshake(m, connectionToServer) ==
    RemoveAllNetworkObjects(
        [Stop(m) EXCEPT !.mode = "Client",
                        !.client =
                            IF m.client # <<>>
                            THEN <<[m.client[1] EXCEPT
                                       !.connection = connectionToServer,
                                       !.replica = <<>>]>>
                            ELSE <<ClientData(connectionToServer)>>])

\* Mutant of StartClient: the objects of the scene are left in the registry.
StartClientKeepingObjects(m, connectionToServer) ==
    [Stop(m) EXCEPT !.mode = "Client",
                    !.client = <<ClientData(connectionToServer)>>]

StartClient(m, connectionToServer) ==
    RemoveAllNetworkObjects(
        [Stop(m) EXCEPT !.mode = "Client",
                        !.client = <<ClientData(connectionToServer)>>])

IsReadyToInitialize(c) == c.serverSettings # None /\ c.initialClock # None

MsgConfigure(payload) == [magic |-> payload, settings |-> payload]

MsgSceneClock(payload) == payload

MsgSynchronized(magic) == [magic |-> magic]

ClientReplica(connection, initialClock, serverSettings) ==
    [connection |-> connection, initialClock |-> initialClock,
     settings |-> serverSettings]

\* afterReplica: whether the client replica existed when the message was written.
WriteSerializedMessage(m, connection, messageId, msg, packetType) ==
    [m EXCEPT !.outbox =
        Append(@, [connection |-> connection, messageId |-> messageId,
                   msg |-> msg, packetType |-> packetType,
                   afterReplica |-> m.client[1].replica # <<>>])]

LogMessagePayload(m, connection, messageId, payload) ==
    Record(m, Call("LogMessagePayload", connection, messageId, <<payload>>))

\* Mutant of CaptureHandshakeMessage: the magic token of a Configure is not kept.
CaptureHandshakeMessageWithoutMagic(m, connection, messageId, payload) ==
    CASE messageId = "MSG_CONFIGURE" ->
            [LogMessagePayload(m, connection, messageId, payload)
                EXCEPT !.client[1].serverSettings = MsgConfigure(payload).settings]
      [] messageId = "MSG_SCENE_CLOCK" ->
            [LogMessagePayload(m, connection, messageId, payload)
                EXCEPT !.client[1].initialClock = MsgSceneClock(payload)]
      [] OTHER -> m

\* Mutant of CaptureHandshakeMessage: a SceneClock that arrives before the
\* settings is dropped.
CaptureHandshakeMessageInOrder(m, connection, messageId, payload) ==
    CASE messageId = "MSG_CONFIGURE" ->
            [LogMessagePayload(m, connection, messageId, payload)
                EXCEPT !.client[1].ackMagic = MsgConfigure(payload).magic,
                       !.client[1].serverSettings = MsgConfigure(payload).settings]
      [] messageId = "MSG_SCENE_CLOCK" ->
            IF m.client[1].serverSettings = None
            THEN LogMessagePayload(m, connection, messageId, payload)
            ELSE [LogMessagePayload(m, connection, messageId, payload)
                     EXCEPT !.client[1].initialClock = MsgSceneClock(payload)]
      [] OTHER -> m

CaptureHandshakeMessage(m, connection, messageId, payload) ==
    CASE messageId = "MSG_CONFIGURE" ->
            [LogMessagePayload(m, connection, messageId, payload)
                EXCEPT !.client[1].ackMagic = MsgConfigure(payload).magic,
                       !.client[1].serverSettings = MsgConfigure(payload).settings]
      [] messageId = "MSG_SCENE_CLOCK" ->
            [LogMessagePayload(m, connection, messageId, payload)
                EXCEPT !.client[1].initialClock = MsgSceneClock(payload)]
      [] OTHER -> m

\* Mutant of ReadyToInitialize: the connection's clock is not consulted.
ReadyIgnoringClock(m, connection) ==
    IsReadyToInitialize(m.client[1])

ReadyToInitialize(m, connection) ==
    m.clockSynchronized[connection] /\ IsReadyToInitialize(m.client[1])

InitializeReplica(m, connection) ==
    LET m1 == [m EXCEPT !.client[1].replica =
                            <<ClientReplica(connection, m.client[1].initialClock,
                                            m.client[1].serverSettings)>>]
    IN WriteSerializedMessage(m1, connection, "MSG_SYNCHRONIZED",
                              MsgSynchronized(m1.client[1].ackMagic),
                              "ReliableUnordered")

\* Mutant of ProcessMessageOnUninitializedClient: readiness is decided before the
\* message is captured.
CheckingBeforeCapture(m, connection, messageId, payload) ==
    IF messageId \notin {"MSG_CONFIGURE", "MSG_SCENE_CLOCK"}
    THEN [m EXCEPT !.handled = "false"]
    ELSE LET m1 == CaptureHandshakeMessage(m, connection, messageId, payload)
             m2 == IF ReadyToInitialize(m, connection)
                   THEN InitializeReplica(m1, connection)
                   ELSE m1
         IN [m2 EXCEPT !.handled = "true"]

\* Mutant of ProcessMessageOnUninitializedClient: an unknown message is refused
\* only after the readiness check has run.
InitializingOnAnyMessage(m, connection, messageId, payload) ==
    LET m1 == CaptureHandshakeMessage(m, connection, messageId, payload)
        m2 == IF ReadyToInitialize(m1, connection)
              THEN InitializeReplica(m1, connection)
              ELSE m1
    IN [m2 EXCEPT !.handled =
            IF messageId \in {"MSG_CONFIGURE", "MSG_SCENE_CLOCK"}
            THEN "true" ELSE "false"]

ProcessMessageOnUninitializedClient(m, connection, messageId, payload) ==
    IF messageId \notin {"MSG_CONFIGURE", "MSG_SCENE_CLOCK"}
    THEN [m EXCEPT !.handled = "false"]
    ELSE LET m1 == CaptureHandshakeMessage(m, connection, messageId, payload)
             m2 == IF ReadyToInitialize(m1, connection)
                   THEN InitializeReplica(m1, connection)
                   ELSE m1
         IN [m2 EXCEPT !.handled = "true"]

\* Mutant of ProcessMessage: a client keeps collecting initialization data after
\* its replica exists.
ProcessMessageAlwaysCollecting(m, connection, messageId, payload, external) ==
    IF m.client # <<>>
    THEN ProcessMessageOnUninitializedClient(m, connection, messageId, payload)
    ELSE IF m.server # <<>>
    THEN [m EXCEPT !.handled = external]
    ELSE [m EXCEPT !.handled = "false"]

\* Mutant of ProcessMessage: a message nobody takes is reported as handled.
ProcessMessageHandledByDefault(m, connection, messageId, payload, external) ==
    IF m.client # <<>>
    THEN IF m.client[1].replica = <<>>
         THEN ProcessMessageOnUninitializedClient(m, connection, messageId, payload)
         ELSE [m EXCEPT !.handled = external]
    ELSE IF m.server # <<>>
    THEN [m EXCEPT !.handled = external]
    ELSE [m EXCEPT !.handled = "true"]

\* external: the value ServerReplicator / ClientReplica ::ProcessMessage returns.
ProcessMessage(m, connection, messageId, payload, external) ==
    IF m.client # <<>>
    THEN IF m.client[1].replica = <<>>
         THEN ProcessMessageOnUninitializedClient(m, connection, messageId, payload)
         ELSE [m EXCEPT !.handled = external]
    ELSE IF m.server # <<>>
    THEN [m EXCEPT !.handled = external]
    ELSE [m EXCEPT !.handled = "false"]

ServerRemoveConnection(m, connection) ==
    [m EXCEPT !.server[1].connections = @ \ {connection}]

ServerAddConnection(m, connection) ==
    [m EXCEPT !.server[1].connections = @ \cup {connection}]

\* Mutant of DropConnection: a client ignores the loss of its connection.
DropConnectionIgnoredByClient(m, connection) ==
    IF m.server # <<>>
    THEN ServerRemoveConnection(m, connection)
    ELSE m

\* Mutant of DropConnection: a client restarts as standalone whichever
\* connection is dropped.
DropConnectionOfAnyConnection(m, connection) ==
    IF m.server # <<>>
    THEN ServerRemoveConnection(m, connection)
    ELSE IF m.client # <<>>
    THEN StartStandalone(m)
    ELSE m

DropConnection(m, connection) ==
    IF m.server # <<>>
    THEN ServerRemoveConnection(m, connection)
    ELSE IF m.client # <<>> /\ m.client[1].connection = connection
    THEN StartStandalone(m)
    ELSE m

\* Mutant of GetUninitializedClientDebugInfo: only the outstanding items are
\* listed.
GetUninitializedClientDebugInfoOutstandingOnly(m) ==
    LET c == m.client[1]
        w1 == IF c.connection # None /\ ~m.clockSynchronized[c.connection]
              THEN <<"system clock">> ELSE <<>>
        w2 == IF c.serverSettings = None THEN Append(w1, "settings") ELSE w1
        w3 == IF c.initialClock = None
              THEN Append(w2, "server scene time") ELSE w2
    IN [format |-> "Connecting... Waiting for {}...", waitList |-> w3]

\* The string is kept as its format and the list that is joined into it.
GetUninitializedClientDebugInfo(m) ==
    LET c == m.client[1]
        w1 == IF c.connection # None /\ ~m.clockSynchronized[c.connection]
              THEN <<"system clock">> ELSE <<>>
        w2 == IF c.serverSettings = None THEN Append(w1, "settings") ELSE w1
        w3 == IF c.initialClock = None \/ w2 = <<>>
              THEN Append(w2, "server scene time") ELSE w2
    IN [format |-> "Connecting... Waiting for {}...", waitList |-> w3]

GetDebugInfo(m) ==
    IF m.client # <<>> /\ m.client[1].replica # <<>>
    THEN [format |-> "ClientReplica::GetDebugInfo", waitList |-> <<>>]
    ELSE IF m.client # <<>>
    THEN GetUninitializedClientDebugInfo(m)
    ELSE IF m.server # <<>>
    THEN [format |-> "ServerReplicator::GetDebugInfo", waitList |-> <<>>]
    ELSE [format |-> "", waitList |-> <<>>]

\* ------------------------------------------------------------- actions
\* The manager's sub-state: its mode and, for a client, the handshake's progress.
SubState(m) ==
    IF m.client # <<>>
    THEN IF m.client[1].replica # <<>> THEN "Synchronized" ELSE "Uninitialized"
    ELSE IF m.server # <<>> THEN "Server" ELSE "Standalone"

\* outbox, handled, lastFlush, lastCall, signals and calls describe the call
\* made in the last step.
Observe(call) ==
    [Cur EXCEPT !.handled = "none", !.lastFlush = NoFlush, !.outbox = <<>>,
                !.lastCall = call, !.signals = <<>>, !.calls = <<>>]

\* A call of a manager entry point named op.
Enter(op) == Observe([op |-> op, from |-> SubState(Cur)])

\* A registry, scene or transport step.
EnterQuiet == Observe(NoCall)

InitManager ==
    /\ mode = "Standalone"
    /\ server = <<>>
    /\ client = <<>>
    /\ recentlyAddedObjects = {}
    /\ components = <<>>
    /\ entries = [i \in Indices |-> None]
    /\ versions = [i \in Indices |-> 0]
    /\ reference = [o \in Objects |-> NoneId]
    /\ nodeParent = [o \in Objects |-> None]
    /\ parentNetworkObject = [o \in Objects |-> NoneId]
    /\ networkObjectsDirty = <<>>
    /\ clockSynchronized = [c \in Connections |-> FALSE]
    /\ outbox = <<>>
    /\ handled = "none"
    /\ lastFlush = NoFlush
    /\ lastCall = NoCall
    /\ signals = <<>>
    /\ calls = <<>>
    /\ addedSinceTick = {}
    /\ networkObjects = <<>>
    /\ sortIndex = 0
    /\ sortPc = "idle"

Init ==
    /\ InitManager
    /\ initializedStandalone = <<>>

\* The same start, with the history of standalone initialization kept.
InitHistory ==
    /\ InitManager
    /\ initializedStandalone = <<{}>>

Registered == SeqToSet(components)

\* Objects are numbered in the order the program constructs them; a removed
\* object is never registered again (a recreated object is a new object).
Constructed == {o \in Objects : reference[o] # NoneId}

\* The objects whose nodes lie directly below the node of parent (or below the
\* scene root, for parent = None), with no other NetworkObject in between.
NodeChildren(parent) == {c \in Registered : nodeParent[c] = parent}

\* A NetworkObject is created on a node below the scene root (parent = None) or
\* below the node of a registered object. adopted: the objects already living
\* below that node; none when the node is new.
AddNetworkObject(o, parent, adopted) ==
    /\ o \notin Constructed
    /\ \A earlier \in 1..(o - 1) : earlier \in Constructed
    /\ parent \in Registered \cup {None}
    /\ adopted \subseteq NodeChildren(parent)
    /\ Becomes(ManagerOnComponentAdded(
                   [EnterQuiet EXCEPT !.addedSinceTick =
                                          IF mode = "Standalone" THEN @ \cup {o}
                                          ELSE @,
                                      !.nodeParent =
                        [x \in Objects |-> IF x = o THEN parent
                                           ELSE IF x \in adopted THEN o
                                           ELSE @[x]]], o))

RemoveNetworkObject(o) ==
    /\ o \in Registered
    /\ Becomes(RemoveNode(EnterQuiet, o))

\* The caller holds the object, registered or not; a removed object still
\* reports the NetworkId it had.
QueueUpdate(o) ==
    /\ o \in Constructed
    /\ Becomes(QueueNetworkObjectUpdate(Enter("QueueNetworkObjectUpdate"), o))

DoRemoveAllNetworkObjects ==
    /\ Becomes(RemoveAllNetworkObjects(Enter("RemoveAllNetworkObjects")))

\* The scene's event carries the frame's time step: eventData[P_TIMESTEP].
ReadTimeStep(m, eventType, timeStep) ==
    Record(m, Call("eventData[P_TIMESTEP]", None, eventType, <<timeStep>>))

SceneUpdate(timeStep, queued) ==
    /\ Becomes([OnSceneUpdate(ReadTimeStep(Enter("OnSceneUpdate"), "E_SCENEUPDATE",
                                           timeStep),
                              timeStep, queued)
                   EXCEPT !.addedSinceTick = {}])

ScenePostUpdate(timeStep, queued) ==
    /\ Becomes([OnScenePostUpdate(ReadTimeStep(Enter("OnScenePostUpdate"),
                                               "E_SCENEPOSTUPDATE", timeStep),
                                  timeStep, queued)
                   EXCEPT !.addedSinceTick = {}])

Flush ==
    /\ Becomes(UpdateNetworkObjects(Enter("UpdateNetworkObjects")))

DoStop ==
    /\ Becomes(Stop(Enter("Stop")))

DoStartStandalone ==
    /\ Becomes([StartStandalone(Enter("StartStandalone"))
                   EXCEPT !.addedSinceTick = {}])

DoStartServer ==
    /\ Becomes([StartServer(Enter("StartServer")) EXCEPT !.addedSinceTick = {}])

DoStartClient(c) ==
    /\ Becomes([StartClient(Enter("StartClient"), c) EXCEPT !.addedSinceTick = {}])

Receive(c, messageId, payload, external) ==
    /\ Becomes(ProcessMessage(Enter("ProcessMessage"), c, messageId, payload, external))

DoDropConnection(c) ==
    /\ Becomes(DropConnection(Enter("DropConnection"), c))

\* The network hands a new client connection to the server replicator.
ConnectionAccepted(c) ==
    /\ server # <<>>
    /\ c \notin server[1].connections
    /\ Becomes(ServerAddConnection(EnterQuiet, c))

\* The transport synchronizes, or loses, the connection's clock.
ClockChange(c) ==
    /\ Becomes([EnterQuiet EXCEPT !.clockSynchronized[c] = ~@])

\* What replica scene processing may queue during one tick.
Queueable == {{}} \cup {{o} : o \in Registered}

\* The registry under every mode of the manager: at most MaxManagedObjects
\* objects, each on a new node, and one connection to the server. A tick's
\* time step reaches only the data of the broadcast event and the requests of
\* its listeners only the dirty flags, so a tick varies one of the two.
Next ==
    \/ \E o \in 1..MaxManagedObjects, parent \in Objects \cup {None} :
           AddNetworkObject(o, parent, {})
    \/ \E o \in Objects : RemoveNetworkObject(o)
    \/ \E o \in Objects : QueueUpdate(o)
    \/ \E timeStep \in TimeSteps : SceneUpdate(timeStep, {})
    \/ \E queued \in Queueable \ {{}} : SceneUpdate(1, queued)
    \/ \E timeStep \in TimeSteps : ScenePostUpdate(timeStep, {})
    \/ \E queued \in Queueable \ {{}} : ScenePostUpdate(1, queued)
    \/ Flush
    \/ DoRemoveAllNetworkObjects
    \/ DoStop
    \/ DoStartStandalone
    \/ DoStartServer
    \/ DoStartClient(1)
    \/ \E messageId \in MessageIds : Receive(1, messageId, 1, "true")
    \/ DoDropConnection(1)
    \/ ClockChange(1)

Spec == Init /\ [][Next]_vars

\* The same manager, with the history of standalone initialization kept.
SpecInitialization == InitHistory /\ [][Next]_vars

\* The registry alone: objects come and go in a scene whose nodes may already
\* hold objects when a NetworkObject is created on them.
NextHierarchy ==
    \/ \E o \in Objects, parent \in Objects \cup {None}, adopted \in SUBSET Objects :
           AddNetworkObject(o, parent, adopted)
    \/ \E o \in Objects : RemoveNetworkObject(o)
    \/ \E o \in Objects : QueueUpdate(o)
    \/ Flush
    \/ ScenePostUpdate(1, {})

SpecHierarchy == Init /\ [][NextHierarchy]_vars

\* The registry's own operations and the signals they publish: a NetworkObject
\* is created on a new node, or on an existing node that holds everything
\* below its parent.
NextRegistry ==
    \/ \E o \in Objects, parent \in Objects \cup {None} :
           \E adopted \in {{}, NodeChildren(parent)} :
               AddNetworkObject(o, parent, adopted)
    \/ \E o \in Objects : RemoveNetworkObject(o)
    \/ \E o \in Objects : QueueUpdate(o)
    \/ Flush
    \/ DoRemoveAllNetworkObjects

SpecRegistry == Init /\ [][NextRegistry]_vars

\* The manager's mode machine and the client handshake, over every connection
\* and payload, in a scene without network objects.
NextHandshake ==
    \/ SceneUpdate(1, {})
    \/ ScenePostUpdate(1, {})
    \/ DoStop
    \/ DoStartStandalone
    \/ DoStartServer
    \/ \E c \in Connections : DoStartClient(c)
    \/ \E c \in Connections, messageId \in MessageIds, payload \in Payloads,
          external \in {"true", "false"} :
           Receive(c, messageId, payload, external)
    \/ \E c \in Connections : DoDropConnection(c)
    \/ \E c \in Connections : ConnectionAccepted(c)
    \/ \E c \in Connections : ClockChange(c)

SpecHandshake == Init /\ [][NextHandshake]_vars


\* ------------------------------------- GetSortedNetworkObjects, step by step
\* The links of the objects are refreshed one object at a time, so after the
\* scene is rearranged they may disagree with each other: every assignment of
\* parent links to the registered objects is an input, cyclic ones included.
ParentLinks == {NoneId} \cup {[index |-> p, version |-> 1] : p \in Objects}

InitSorted ==
    \E n \in 0..MaxObjects :
        /\ mode = "Standalone"
        /\ server = <<>>
        /\ client = <<>>
        /\ recentlyAddedObjects = {}
        /\ components = [i \in 1..n |-> i]
        /\ entries = [i \in Indices |-> IF i <= n THEN i ELSE None]
        /\ versions = [i \in Indices |-> IF i <= n THEN 1 ELSE 0]
        /\ reference = [o \in Objects |->
                           IF o <= n THEN [index |-> o, version |-> 1] ELSE NoneId]
        /\ nodeParent = [o \in Objects |-> None]
        /\ parentNetworkObject \in [Objects -> ParentLinks]
        /\ \A o \in Objects : o > n => parentNetworkObject[o] = NoneId
        /\ networkObjectsDirty = [k \in 1..(IF n = 0 THEN 0 ELSE n + 1) |-> FALSE]
        /\ clockSynchronized = [c \in Connections |-> FALSE]
        /\ outbox = <<>>
        /\ handled = "none"
        /\ lastFlush = NoFlush
        /\ lastCall = NoCall
        /\ signals = <<>>
        /\ calls = <<>>
        /\ addedSinceTick = {}
        /\ initializedStandalone = <<>>
        /\ networkObjects = <<>>
        /\ sortIndex = 0
        /\ sortPc = "idle"

programVars ==
    <<mode, server, client, recentlyAddedObjects, components, entries, versions,
      reference, nodeParent, parentNetworkObject, networkObjectsDirty,
      clockSynchronized, outbox, handled, lastFlush, lastCall, signals, calls,
      addedSinceTick, initializedStandalone>>

SortRoots ==
    /\ sortPc = "idle"
    /\ networkObjects' = EnumerateRoots(Cur)
    /\ sortIndex' = 0
    /\ sortPc' = "children"
    /\ UNCHANGED programVars

SortChildren ==
    /\ sortPc = "children"
    /\ sortIndex < Len(networkObjects)
    /\ networkObjects' = PushChildren(Cur, networkObjects, sortIndex)
    /\ sortIndex' = sortIndex + 1
    /\ UNCHANGED <<sortPc, programVars>>

SortReturn ==
    /\ sortPc = "children"
    /\ sortIndex >= Len(networkObjects)
    /\ sortPc' = "done"
    /\ UNCHANGED <<networkObjects, sortIndex, programVars>>

NextSorted ==
    \/ SortRoots
    \/ SortChildren
    \/ SortReturn

SpecSorted == InitSorted /\ [][NextSorted]_vars

\* The call runs to its end once started: nothing else runs on the thread.
SpecSortedFair == SpecSorted /\ WF_vars(NextSorted)

\* ------------------------------------------------------------- claims
ReplicaLive == client # <<>> /\ client[1].replica # <<>>

ReplicaConstructed == ~ReplicaLive /\ ReplicaLive'

NoDirtyFlag(m) ==
    \A k \in 1..Len(m.networkObjectsDirty) : ~m.networkObjectsDirty[k]

\* C1: the mode decides which of the server state and the client state exists:
\* neither in Standalone, the server alone in Server, the client alone in Client.
C1_ModeExclusive ==
    /\ mode \in Modes
    /\ mode = "Standalone" => server = <<>> /\ client = <<>>
    /\ mode = "Server" => server # <<>> /\ client = <<>>
    /\ mode = "Client" => client # <<>> /\ server = <<>>

C1_Witness ==
    /\ mode = "Client"
    /\ ReplicaLive
    /\ lastCall.op = "ProcessMessage"
    /\ server = <<>>

\* C2: a step constructs the client replica only in Client mode, while a message
\* is processed, with the settings and the initial clock both received and the
\* connection the replica is bound to reporting a synchronized clock.
C2_SynchronizedOnlyWhenReady ==
    [][ReplicaConstructed =>
         /\ mode' = "Client"
         /\ lastCall'.op = "ProcessMessage"
         /\ client'[1].serverSettings # None
         /\ client'[1].initialClock # None
         /\ clockSynchronized'[client'[1].replica[1].connection]
         /\ clockSynchronized' = clockSynchronized]_vars

C2_Witness ==
    /\ ReplicaLive
    /\ handled = "true"
    /\ outbox # <<>>
    /\ client[1].replica[1].settings = 1
    /\ client[1].replica[1].initialClock = 2

AllThreeHold ==
    /\ client # <<>>
    /\ IsReadyToInitialize(client[1])
    /\ clockSynchronized[client[1].connection]

\* C3 as claimed: once the settings, the initial clock and the synchronized
\* connection clock are all there, the client becomes Synchronized without a
\* further message: at the latest when a scene tick has run.
C3_SynchronizedWithoutMessage ==
    [][(AllThreeHold /\ lastCall'.op \in {"OnSceneUpdate", "OnScenePostUpdate"})
          => ReplicaLive']_vars

\* C3 amended: the client becomes Synchronized while a Configure or SceneClock
\* message is processed, when after capturing it the settings and the initial
\* clock are both there and the delivering connection reports a synchronized
\* clock; no other step constructs the replica, so a clock that synchronizes
\* last takes effect only with the next Configure or SceneClock message.
C3_SynchronizedOnMessage ==
    [][/\ \A c \in Connections, payload \in Payloads,
             messageId \in {"MSG_CONFIGURE", "MSG_SCENE_CLOCK"} :
              (/\ Receive(c, messageId, payload, "true")
               /\ client # <<>>
               /\ ~ReplicaLive
               /\ clockSynchronized[c]
               /\ IsReadyToInitialize(client'[1]))
              => ReplicaLive'
       /\ ReplicaConstructed =>
              /\ lastCall'.op = "ProcessMessage"
              /\ handled' = "true"]_vars

C3_Witness ==
    /\ ReplicaLive
    /\ lastCall = [op |-> "ProcessMessage", from |-> "Uninitialized"]
    /\ client[1].ackMagic = 2
    /\ client[1].initialClock = 1
    /\ clockSynchronized[client[1].replica[1].connection]

\* C4: a step writes a message exactly when it constructs the client replica;
\* the message is one Synchronized acknowledgement, written after the replica
\* exists, sent reliable-unordered on the replica's connection, and it carries
\* the magic token, which only a Configure message sets.
C4_OneAcknowledgement ==
    [][/\ outbox' # <<>> <=> ReplicaConstructed
       /\ outbox' # <<>> =>
              outbox' = <<[connection |-> client'[1].replica[1].connection,
                           messageId |-> "MSG_SYNCHRONIZED",
                           msg |-> [magic |-> client'[1].ackMagic],
                           packetType |-> "ReliableUnordered",
                           afterReplica |-> TRUE]>>
       /\ (/\ client' # <<>>
           /\ client'[1].ackMagic # None
           /\ (client = <<>> \/ client[1].ackMagic # client'[1].ackMagic))
          => \E c \in Connections :
                 Receive(c, "MSG_CONFIGURE", client'[1].ackMagic, "true")]_vars

C4_Witness ==
    /\ Len(outbox) = 1
    /\ outbox[1].msg.magic = 2
    /\ outbox[1].connection = 2
    /\ ReplicaLive
    /\ client[1].serverSettings = 2

\* C5 as claimed: DropConnection with the client's connection, before the
\* handshake has completed, leaves the manager an uninitialized client.
C5_DropLeavesClientWaiting ==
    [][\A c \in Connections :
          (/\ DoDropConnection(c)
           /\ client # <<>>
           /\ ~ReplicaLive
           /\ client[1].connection = c)
          => (mode' = "Client" /\ client' # <<>> /\ ~ReplicaLive')]_vars

\* C5 amended: DropConnection with the client's connection, before the handshake
\* has completed, restarts the manager as Standalone: the client state and what
\* the handshake had collected are discarded. DropConnection with another
\* connection leaves the uninitialized client as it is.
C5_DropRestartsStandalone ==
    [][\A c \in Connections :
          (DoDropConnection(c) /\ client # <<>> /\ ~ReplicaLive)
          => IF client[1].connection = c
             THEN /\ mode' = "Standalone"
                  /\ client' = <<>>
                  /\ server' = <<>>
                  /\ recentlyAddedObjects' = {}
             ELSE UNCHANGED <<mode, client, server>>]_vars

C5_Witness ==
    /\ lastCall = [op |-> "DropConnection", from |-> "Uninitialized"]
    /\ mode = "Standalone"
    /\ client = <<>>

\* C6: an uninitialized client refuses every message other than Configure and
\* SceneClock: the call returns false, the collected handshake data stay as they
\* are, no replica is constructed and nothing is sent.
C6_UnknownMessageRefused ==
    [][\A c \in Connections, payload \in Payloads :
          (Receive(c, "MSG_OTHER", payload, "true") /\ client # <<>> /\ ~ReplicaLive)
          => /\ handled' = "false"
             /\ client' = client
             /\ outbox' = <<>>
             /\ UNCHANGED <<mode, server>>]_vars

C6_Witness ==
    /\ lastCall = [op |-> "ProcessMessage", from |-> "Uninitialized"]
    /\ handled = "false"
    /\ AllThreeHold
    /\ ~ReplicaLive

managerVars == <<mode, server, client, recentlyAddedObjects>>

registryVars ==
    <<components, entries, versions, reference, nodeParent, parentNetworkObject,
      networkObjectsDirty>>

\* C7: with neither client nor server state, ProcessMessage returns false for
\* every message and changes nothing in the manager and the registry.
C7_StandaloneUnhandled ==
    [][\A messageId \in MessageIds :
          (Receive(1, messageId, 1, "true") /\ client = <<>> /\ server = <<>>)
          => /\ handled' = "false"
             /\ outbox' = <<>>
             /\ UNCHANGED <<managerVars, registryVars>>]_vars

C7_Witness ==
    /\ lastCall = [op |-> "ProcessMessage", from |-> "Standalone"]
    /\ handled = "false"
    /\ Len(components) >= 2
    /\ recentlyAddedObjects # {}
    /\ \E k \in 1..Len(networkObjectsDirty) : networkObjectsDirty[k]

IsBefore(s, a, b) ==
    \E i, j \in 1..Len(s) : i < j /\ s[i] = a /\ s[j] = b

\* C8: the sorted output holds every registered object exactly once, nothing
\* else, and every object after its parent.
C8_SortedParentsFirst ==
    LET sorted == GetSortedNetworkObjects(Cur)
    IN /\ SeqToSet(sorted) = Registered
       /\ Len(sorted) = Cardinality(Registered)
       /\ \A o \in Registered :
              GetParentNetworkObject(Cur, o) # None
              => IsBefore(sorted, GetParentNetworkObject(Cur, o), o)

C8_Witness ==
    /\ components = <<1, 2, 3>>
    /\ GetParentNetworkObject(Cur, 1) = 3
    /\ GetParentNetworkObject(Cur, 3) = 2
    /\ GetSortedNetworkObjects(Cur) = <<2, 3, 1>>

\* C9: the traversal never holds an object twice, so the output never outgrows
\* the registry and the loop variable reaches its end, for every assignment of
\* parent links, cyclic ones included.
C9_TraversalBounded ==
    /\ Len(networkObjects) <= Cardinality(Registered)
    /\ \A i, j \in 1..Len(networkObjects) :
           i # j => networkObjects[i] # networkObjects[j]
    /\ sortIndex <= Len(networkObjects)
    /\ sortPc = "done" => sortIndex = Len(networkObjects)

C9_Witness ==
    /\ sortPc = "done"
    /\ Len(components) = 3
    /\ GetParentNetworkObject(Cur, 1) = 2
    /\ GetParentNetworkObject(Cur, 2) = 1
    /\ networkObjects = <<3>>

\* The traversal ends (checked under SpecSortedFair).
C9_TraversalEnds == <>(sortPc = "done")

\* C10: after UpdateNetworkObjects no dirty flag is set, whether or not the
\* flagged indices still resolve; a second call made right after changes
\* nothing and re-links no object.
C10_FlushIdempotent ==
    LET once == UpdateNetworkObjects(Cur)
        twice == UpdateNetworkObjects(once)
    IN /\ lastCall.op \in {"UpdateNetworkObjects", "OnScenePostUpdate"}
              => NoDirtyFlag(Cur)
       /\ NoDirtyFlag(once)
       /\ Len(once.networkObjectsDirty) = Len(networkObjectsDirty)
       /\ twice.lastFlush = NoFlush
       /\ twice = [once EXCEPT !.lastFlush = NoFlush]

C10_Witness ==
    /\ lastCall.op = "OnScenePostUpdate"
    /\ Len(lastFlush.relinked) >= 2
    /\ \E index \in lastFlush.cleared : entries[index] = None
    /\ NoDirtyFlag(Cur)

\* A step turns a set dirty flag to unset, or drops it with its vector.
FlagCleared ==
    \E k \in 1..Len(networkObjectsDirty) :
        /\ networkObjectsDirty[k]
        /\ (k > Len(networkObjectsDirty') \/ ~networkObjectsDirty'[k])

VectorDiscarded == Len(networkObjectsDirty') < Len(networkObjectsDirty)

\* C11 as claimed: only UpdateNetworkObjects (called directly or at the end of a
\* post-update tick) turns a set dirty flag to unset or discards the flag
\* vector.
C11_OnlyFlushClears ==
    [][(FlagCleared \/ VectorDiscarded)
          => lastCall'.op \in {"UpdateNetworkObjects", "OnScenePostUpdate"}]_vars

\* C11 amended: a set dirty flag is turned to unset only by UpdateNetworkObjects
\* (directly or at the end of a post-update tick) and by
\* RemoveAllNetworkObjects (directly or inside StartClient), which discards the
\* whole flag vector, set flags included; every other operation leaves set
\* flags set and never shortens the vector.
C11_FlushAndRemoveAllClear ==
    [][/\ FlagCleared
           => lastCall'.op \in {"UpdateNetworkObjects", "OnScenePostUpdate",
                                "RemoveAllNetworkObjects", "StartClient"}
       /\ VectorDiscarded
           => lastCall'.op \in {"RemoveAllNetworkObjects", "StartClient"}
       /\ lastCall'.op \in {"RemoveAllNetworkObjects", "StartClient"}
           => networkObjectsDirty' = <<>>]_vars

C11_Witness ==
    /\ lastCall.op = "StartClient"
    /\ networkObjectsDirty = <<>>
    /\ signals # <<>>
    /\ LET last == signals[Len(signals)]
       IN /\ last.kind = "removed"
          /\ \E k \in 1..Len(last.dirty) : last.dirty[k]

\* C12: when a post-update tick completes, in every mode, no dirty flag is set:
\* the flags set before the tick and the flags the tick's own processing set
\* are all cleared by the flush that ends the tick.
C12_FlushAfterProcessing ==
    [][lastCall'.op = "OnScenePostUpdate"
          => /\ NoDirtyFlag(Cur')
             /\ Len(networkObjectsDirty') = Len(networkObjectsDirty)
             /\ \A k \in 1..Len(networkObjectsDirty) :
                    networkObjectsDirty[k] => (k - 1) \in lastFlush'.cleared
             /\ \A i \in 1..Len(calls') :
                    calls'[i].call = "QueueNetworkObjectUpdate"
                        => /\ reference[calls'[i].on].index \in lastFlush'.cleared
                           /\ \E j \in (i + 1)..Len(calls') :
                                  calls'[j] = Call("UpdateObjectHierarchy",
                                                   calls'[i].on, "", <<>>)]_vars

C12_Witness ==
    /\ lastCall = [op |-> "OnScenePostUpdate", from |-> "Synchronized"]
    /\ Len(components) = 2
    /\ Cardinality(lastFlush.cleared) = 2
    /\ Len(lastFlush.relinked) = 2
    /\ NoDirtyFlag(Cur)

Resolves(o) == GetNetworkObject(Cur, reference[o], TRUE) = o

\* C13: QueueNetworkObjectUpdate sets the flag of the object's index when the
\* object is the one registered under its NetworkId, index and version; for an
\* object whose slot is empty or holds another object it changes no flag; in
\* both cases nothing else in the registry changes.
C13_StaleQueueIgnored ==
    [][\A o \in Objects :
          QueueUpdate(o)
          => /\ Resolves(o) => reference[o].index + 1 <= Len(networkObjectsDirty)
             /\ networkObjectsDirty' =
                    IF Resolves(o)
                    THEN [networkObjectsDirty EXCEPT ![reference[o].index + 1] = TRUE]
                    ELSE networkObjectsDirty
             /\ UNCHANGED <<components, entries, versions, reference, nodeParent,
                            parentNetworkObject, managerVars>>
             /\ signals' = <<>>]_vars

C13_Witness ==
    /\ lastCall.op = "QueueNetworkObjectUpdate"
    /\ components = <<2>>
    /\ reference[1].index = reference[2].index
    /\ reference[1].version # reference[2].version
    /\ ~networkObjectsDirty[reference[2].index + 1]

\* C14: adding a NetworkObject registers it, grows the dirty vector to cover its
\* index, sets the flag of its index and then publishes one 'added' signal: when
\* the signal fires the object resolves by its NetworkId and its flag is set,
\* and no other flag has changed.
C14_AddedSignalAfterDirty ==
    [][\A o \in Objects :
          (~IsRegistered(Cur, o) /\ IsRegistered(Cur', o))
          => LET index == reference'[o].index
             IN /\ Len(signals') = 1
                /\ signals'[1].kind = "added"
                /\ signals'[1].object = o
                /\ signals'[1].resolves
                /\ signals'[1].dirtyAtEntry = networkObjectsDirty
                /\ signals'[1].dirty = networkObjectsDirty'
                /\ entries'[index] = o
                /\ Len(networkObjectsDirty') >= index + 1
                /\ Len(networkObjectsDirty') >= Len(networkObjectsDirty)
                /\ networkObjectsDirty'[index + 1]
                /\ \A k \in 1..Len(networkObjectsDirty') :
                       k # index + 1
                       => networkObjectsDirty'[k] =
                              (k <= Len(networkObjectsDirty) /\ networkObjectsDirty[k])]_vars

C14_Witness ==
    /\ Len(signals) = 1
    /\ signals[1].kind = "added"
    /\ signals[1].object = 2
    /\ signals[1].resolves
    /\ Len(signals[1].dirtyAtEntry) < Len(signals[1].dirty)
    /\ signals[1].dirty[reference[2].index + 1]

\* C15: removing a NetworkObject whose parent resolves sets the flag of the
\* parent's index and no other flag, then publishes one 'removed' signal, and
\* only then unlinks the object: when the signal fires the object still
\* resolves by its NetworkId and the parent's flag is set; after the step the
\* object is gone from the registry.
C15_ParentDirtyBeforeRemovedSignal ==
    [][/\ \A i \in 1..Len(signals') :
              signals'[i].kind = "removed"
              => LET sig == signals'[i]
                 IN /\ sig.resolves
                    /\ ~IsRegistered(Cur', sig.object)
                    /\ GetNetworkObject(Cur', reference'[sig.object], TRUE) = None
                    /\ sig.parent # None
                           => /\ reference[sig.parent] # NoneId
                              /\ sig.dirty =
                                     [sig.dirtyAtEntry
                                         EXCEPT ![reference[sig.parent].index + 1] = TRUE]
                    /\ sig.parent = None => sig.dirty = sig.dirtyAtEntry
       /\ \A o \in Objects :
              RemoveNetworkObject(o)
              => LET parentObject == GetParentNetworkObject(Cur, o)
                 IN /\ signals' # <<>>
                    /\ signals'[1].kind = "removed"
                    /\ signals'[1].object = o
                    /\ signals'[1].parent = parentObject
                    /\ signals'[1].dirtyAtEntry = networkObjectsDirty
                    /\ parentObject # None
                           => /\ IsRegistered(Cur', parentObject)
                              /\ networkObjectsDirty'[reference[parentObject].index + 1]]_vars

C15_Witness ==
    /\ lastCall = NoCall
    /\ Len(signals) = 1
    /\ signals[1].kind = "removed"
    /\ signals[1].resolves
    /\ signals[1].parent # None
    /\ ~signals[1].dirtyAtEntry[reference[signals[1].parent].index + 1]
    /\ signals[1].dirty[reference[signals[1].parent].index + 1]
    /\ networkObjectsDirty[reference[signals[1].parent].index + 1]
    /\ ~IsRegistered(Cur, signals[1].object)

RemovedSignals(sigs, o) ==
    {i \in 1..Len(sigs) : sigs[i].kind = "removed" /\ sigs[i].object = o}

\* C16: after RemoveAllNetworkObjects, whatever the hierarchy of the registered
\* objects, no object is tracked, no index resolves, the dirty set is empty,
\* and every object that was registered got exactly one 'removed' signal, with
\* no signal for any other object.
C16_RemoveAllNotifiesEachOnce ==
    [][DoRemoveAllNetworkObjects
          => /\ components' = <<>>
             /\ \A i \in Indices : entries'[i] = None
             /\ networkObjectsDirty' = <<>>
             /\ \A o \in Objects :
                    Cardinality(RemovedSignals(signals', o)) =
                        IF o \in Registered THEN 1 ELSE 0
             /\ Len(signals') = Cardinality(Registered)]_vars

C16_Witness ==
    /\ lastCall.op = "RemoveAllNetworkObjects"
    /\ components = <<>>
    /\ networkObjectsDirty = <<>>
    /\ Len(signals) = 3
    /\ signals[1].object = 1 /\ signals[1].nodeParent = None
    /\ signals[2].object = 2 /\ signals[2].nodeParent = 1
    /\ signals[3].object = 3 /\ signals[3].nodeParent = 2
    /\ \E k \in 1..Len(signals[3].dirty) : signals[3].dirty[k]

\* C17: Stop, from every state, leaves mode Standalone, no server state, no
\* client state and an empty recently-added set, and does not touch the
\* registry; a second Stop made right after changes nothing at all.
C17_StopIdempotent ==
    [][DoStop
          => /\ mode' = "Standalone"
             /\ server' = <<>>
             /\ client' = <<>>
             /\ recentlyAddedObjects' = {}
             /\ UNCHANGED registryVars
             /\ Stop(Cur') = Cur'
             /\ Stop(Stop(Cur)) = Stop(Cur)]_vars

C17_Witness ==
    /\ lastCall = [op |-> "Stop", from |-> "Synchronized"]
    /\ mode = "Standalone"
    /\ client = <<>>
    /\ components # <<>>
    /\ ~NoDirtyFlag(Cur)

\* The manager as its constructor leaves it.
FreshManager ==
    [mode |-> "Standalone", server |-> <<>>, client |-> <<>>,
     recentlyAddedObjects |-> {},
     components |-> <<>>, entries |-> [i \in Indices |-> None],
     versions |-> [i \in Indices |-> 0],
     reference |-> [o \in Objects |-> NoneId],
     nodeParent |-> [o \in Objects |-> None],
     parentNetworkObject |-> [o \in Objects |-> NoneId],
     networkObjectsDirty |-> <<>>,
     clockSynchronized |-> [c \in Connections |-> FALSE], outbox |-> <<>>,
     handled |-> "none", lastFlush |-> NoFlush, lastCall |-> NoCall,
     signals |-> <<>>, calls |-> <<>>, addedSinceTick |-> {}]

StartOps == {"StartStandalone", "StartServer", "StartClient"}

Started(m, op, c) ==
    CASE op = "StartStandalone" -> StartStandalone(m)
      [] op = "StartServer" -> StartServer(m)
      [] op = "StartClient" -> StartClient(m, c)

ManagerState(m) ==
    [mode |-> m.mode, server |-> m.server, client |-> m.client,
     recentlyAddedObjects |-> m.recentlyAddedObjects]

RegistryState(m) ==
    [components |-> m.components, networkObjectsDirty |-> m.networkObjectsDirty]

\* C18 as claimed: StartX, which begins with Stop, leaves the whole manager, its
\* tracked objects and dirty set included, as the same StartX leaves a freshly
\* constructed manager.
C18_StartEqualsFresh ==
    [][\A op \in StartOps :
          lastCall'.op = op
          => /\ ManagerState(Cur') = ManagerState(Started(FreshManager, op, 1))
             /\ RegistryState(Cur') = RegistryState(Started(FreshManager, op, 1))]_vars

\* C18 amended: Stop followed by StartX gives the same result as StartX alone,
\* and leaves mode, server state, client state and standalone bookkeeping as
\* the same StartX leaves them on a freshly constructed manager. StartClient
\* also leaves the registry without objects and without dirty flags, as on a
\* fresh manager; StartStandalone and StartServer leave the registry as it was,
\* objects and dirty flags included.
C18_StartEqualsFreshMode ==
    [][\A op \in StartOps :
          lastCall'.op = op
          => /\ Started(Stop(Cur), op, 1) = Started(Cur, op, 1)
             /\ ManagerState(Cur') = ManagerState(Started(Stop(Cur), op, 1))
             /\ ManagerState(Cur') = ManagerState(Started(FreshManager, op, 1))
             /\ op = "StartClient"
                    => RegistryState(Cur') =
                           RegistryState(Started(FreshManager, op, 1))
             /\ op # "StartClient" => UNCHANGED registryVars]_vars

C18_Witness ==
    /\ lastCall = [op |-> "StartServer", from |-> "Synchronized"]
    /\ mode = "Server"
    /\ server = <<ServerReplicator>>
    /\ Len(components) = 2
    /\ ~NoDirtyFlag(Cur)

\* C19: Stop, StartStandalone and StartServer leave no client state, and
\* StartClient, also when the manager is a client already, leaves a client
\* state that holds the new connection and nothing of an earlier session: no
\* settings, no initial clock, no magic, no replica. So whatever the earlier
\* session had received, the first message of the new session, on any
\* connection, never constructs a replica and nothing is acknowledged.
C19_ModeSwitchDiscardsHandshake ==
    [][/\ lastCall'.op \in {"Stop", "StartStandalone", "StartServer"}
           => client' = <<>>
       /\ \A c \in Connections :
              DoStartClient(c)
              => /\ client' = <<ClientData(c)>>
                 /\ \A c2 \in Connections, messageId \in MessageIds,
                       payload \in Payloads :
                        LET after == ProcessMessage(Cur', c2, messageId, payload,
                                                    "true")
                        IN /\ after.client[1].replica = <<>>
                           /\ after.outbox = <<>>
                           /\ ~IsReadyToInitialize(after.client[1])]_vars

C19_Witness ==
    /\ lastCall = [op |-> "StartClient", from |-> "Synchronized"]
    /\ client = <<ClientData(2)>>
    /\ clockSynchronized[2]

\* C20: StartClient, from every state, leaves mode Client, a client state
\* with the given connection and nothing else, no server state, and a registry
\* without objects: every object registered before the call has been removed
\* through the removal path, one 'removed' signal each.
C20_StartClientEmptiesRegistry ==
    [][DoStartClient(1)
          => /\ mode' = "Client"
             /\ client' = <<ClientData(1)>>
             /\ server' = <<>>
             /\ recentlyAddedObjects' = {}
             /\ components' = <<>>
             /\ \A i \in Indices : entries'[i] = None
             /\ \A o \in Registered :
                    /\ Cardinality(RemovedSignals(signals', o)) = 1
                    /\ GetNetworkObject(Cur', reference'[o], TRUE) = None]_vars

C20_Witness ==
    /\ lastCall = [op |-> "StartClient", from |-> "Server"]
    /\ mode = "Client"
    /\ client = <<ClientData(1)>>
    /\ components = <<>>
    /\ Len(signals) = 2
    /\ signals[1].kind = "removed"
    /\ signals[2].kind = "removed"

\* ------------------------------------------------- the calls of a step
TickOps == {"OnSceneUpdate", "OnScenePostUpdate"}

EventOf(op) ==
    IF op = "OnSceneUpdate" THEN "E_SCENENETWORKUPDATE" ELSE "E_SCENENETWORKPOSTUPDATE"

\* The positions in cs of the calls named name, and of those made on o.
CallsOf(cs, name) == {i \in 1..Len(cs) : cs[i].call = name}

CallsOn(cs, name, o) == {i \in CallsOf(cs, name) : cs[i].on = o}

\* o is set to Standalone network mode and then initialized as standalone,
\* exactly once, by the calls cs.
InitializedOnce(cs, o) ==
    /\ Cardinality(CallsOn(cs, "SetNetworkMode", o)) = 1
    /\ Cardinality(CallsOn(cs, "InitializeStandalone", o)) = 1
    /\ \A i \in CallsOn(cs, "SetNetworkMode", o) :
           /\ cs[i].arg = "Standalone"
           /\ \A j \in CallsOn(cs, "InitializeStandalone", o) : i < j

NotInitialized(cs, o) ==
    /\ CallsOn(cs, "SetNetworkMode", o) = {}
    /\ CallsOn(cs, "InitializeStandalone", o) = {}

\* C21 as claimed: a tick in Standalone mode initializes as standalone, exactly
\* once, every registered object that was added in Standalone mode and has met
\* no tick yet; it initializes no other object, never takes the 'cannot find'
\* path, and leaves the recently-added set empty.
C21_AddedObjectsInitializedByNextTick ==
    [][(lastCall'.op \in TickOps /\ lastCall'.from = "Standalone")
          => /\ \A o \in addedSinceTick : InitializedOnce(calls', o)
             /\ \A o \in Objects \ addedSinceTick : NotInitialized(calls', o)
             /\ CallsOf(calls', "URHO3D_ASSERTLOG") = {}
             /\ recentlyAddedObjects' = {}]_vars

\* C22: a tick in Standalone mode broadcasts the network-update event of its
\* phase exactly once, after every initialization call it makes on the objects
\* of the recently-added set, and the event's replica-timestep and
\* input-timestep fields both hold the time delta of the tick.
C22_InitializeThenBroadcast ==
    [][(lastCall'.op \in TickOps /\ lastCall'.from = "Standalone")
          => /\ calls'[1].call = "eventData[P_TIMESTEP]"
             /\ Cardinality(CallsOf(calls', "SendEvent")) = 1
             /\ \A id \in recentlyAddedObjects :
                    InitializedOnce(calls', GetNetworkObject(Cur, id, TRUE))
             /\ \A i \in CallsOf(calls', "SendEvent") :
                    /\ calls'[i].arg = EventOf(lastCall'.op)
                    /\ calls'[i].data = <<calls'[1].data[1], calls'[1].data[1]>>
                    /\ \A j \in CallsOf(calls', "SetNetworkMode")
                                \cup CallsOf(calls', "InitializeStandalone") : j < i
                    /\ \A j \in CallsOf(calls', "UpdateObjectHierarchy")
                                \cup CallsOf(calls', "QueueNetworkObjectUpdate") :
                           i < j]_vars

C22_Witness ==
    /\ lastCall = [op |-> "OnSceneUpdate", from |-> "Standalone"]
    /\ Len(calls) = 6
    /\ calls[1] = Call("eventData[P_TIMESTEP]", None, "E_SCENEUPDATE", <<2>>)
    /\ calls[5] = Call("InitializeStandalone", 2, "", <<>>)
    /\ calls[6] = Call("SendEvent", None, "E_SCENENETWORKUPDATE", <<2, 2>>)

\* C23: StartStandalone, from any mode, ends in Standalone mode without client
\* or server state, with the recently-added set empty, and has set to
\* Standalone network mode and then initialized as standalone, exactly once,
\* every object registered at the call and no other object.
C23_StartStandaloneInitializesAll ==
    [][DoStartStandalone
          => /\ mode' = "Standalone"
             /\ client' = <<>>
             /\ server' = <<>>
             /\ recentlyAddedObjects' = {}
             /\ components' = components
             /\ Len(calls') = 2 * Len(components)
             /\ \A o \in Objects :
                    IF IsRegistered(Cur, o) THEN InitializedOnce(calls', o)
                    ELSE NotInitialized(calls', o)]_vars

C23_Witness ==
    /\ lastCall = [op |-> "StartStandalone", from |-> "Server"]
    /\ mode = "Standalone"
    /\ Len(components) = 2
    /\ Len(calls) = 4

ModeSpecificCalls ==
    {"SetNetworkMode", "InitializeStandalone", "URHO3D_ASSERTLOG", "SendEvent",
     "ServerReplicator::ProcessSceneUpdate", "ClientReplica::ProcessSceneUpdate"}

\* The mode-specific calls of cs are exactly one call named name.
DelegatedOnlyTo(cs, name) ==
    /\ Cardinality(CallsOf(cs, name)) = 1
    /\ \A other \in ModeSpecificCalls \ {name} : CallsOf(cs, other) = {}

\* C24: a tick is passed to the client replica's scene processing only when
\* the replica exists at the tick; a tick of a client without replica makes no
\* mode-specific call and changes neither the mode, the client and server
\* state, the recently-added set nor the registered objects; a tick of a server
\* is passed to the server replicator, once, and to nothing else.
C24_TickDelegation ==
    [][lastCall'.op \in TickOps
          => /\ CallsOf(calls', "ClientReplica::ProcessSceneUpdate") # {}
                    => ReplicaLive
             /\ lastCall'.from = "Uninitialized"
                    => /\ \A name \in ModeSpecificCalls : CallsOf(calls', name) = {}
                       /\ UNCHANGED <<mode, server, client, recentlyAddedObjects,
                                      components, entries, versions, reference,
                                      clockSynchronized>>
                       /\ outbox' = <<>>
             /\ lastCall'.from = "Server"
                    => DelegatedOnlyTo(calls', "ServerReplicator::ProcessSceneUpdate")
             /\ lastCall'.from = "Synchronized"
                    => DelegatedOnlyTo(calls', "ClientReplica::ProcessSceneUpdate")]_vars

C24_Witness ==
    /\ lastCall = [op |-> "OnScenePostUpdate", from |-> "Uninitialized"]
    /\ client # <<>>
    /\ client[1].serverSettings # None
    /\ client[1].replica = <<>>
    /\ components # <<>>
    /\ Len(calls) = 1
    /\ calls[1].call = "eventData[P_TIMESTEP]"

\* ------------------------------------------------------- debug info
Uninitialized == client # <<>> /\ client[1].replica = <<>>

WaitList == GetDebugInfo(Cur).waitList

Listed(item) == \E i \in 1..Len(WaitList) : WaitList[i] = item

ListedOnce(item) == Cardinality({i \in 1..Len(WaitList) : WaitList[i] = item}) <= 1

\* C25 as claimed: while the client is uninitialized the debug info lists
\* 'system clock' iff the connection's clock is not synchronized, 'settings'
\* iff no Configure has been received and 'server scene time' iff no SceneClock
\* has been received.
C25_ListsExactlyOutstanding ==
    Uninitialized
        => /\ GetDebugInfo(Cur).format = "Connecting... Waiting for {}..."
           /\ Listed("system clock") <=> ~clockSynchronized[client[1].connection]
           /\ Listed("settings") <=> client[1].serverSettings = None
           /\ Listed("server scene time") <=> client[1].initialClock = None

\* C25 amended: while the client is uninitialized the debug info lists, each at
\* most once and in this order, 'system clock' iff the connection's clock is
\* not synchronized, 'settings' iff no Configure has been received, and 'server
\* scene time' iff no SceneClock has been received or nothing else is
\* outstanding; the list is never empty, and a received SceneClock is listed
\* exactly when the clock is synchronized and the settings are received.
C25_ListsOutstandingOrSceneTime ==
    Uninitialized
        => /\ GetDebugInfo(Cur).format = "Connecting... Waiting for {}..."
           /\ Listed("system clock") <=> ~clockSynchronized[client[1].connection]
           /\ Listed("settings") <=> client[1].serverSettings = None
           /\ Listed("server scene time")
                  <=> \/ client[1].initialClock = None
                      \/ /\ clockSynchronized[client[1].connection]
                         /\ client[1].serverSettings # None
           /\ WaitList # <<>>
           /\ \A item \in SeqToSet(WaitList) :
                  /\ item \in {"system clock", "settings", "server scene time"}
                  /\ ListedOnce(item)
           /\ \A i, j \in 1..Len(WaitList) :
                  (i < j) => /\ WaitList[j] # "system clock"
                             /\ WaitList[i] # "server scene time"

C25_Witness ==
    /\ Uninitialized
    /\ clockSynchronized[client[1].connection]
    /\ client[1].serverSettings # None
    /\ client[1].initialClock # None
    /\ WaitList = <<"server scene time">>

\* ------------------------------------------------------------ lookup
\* The occupant of slot index: the object entered last at that index, if it is
\* still registered.
Occupant(index) ==
    IF \E o \in Registered : reference[o].index = index
    THEN CHOOSE o \in Registered : reference[o].index = index
    ELSE None

\* C26: a NetworkId whose object was removed is stale: the version-checked
\* lookup gives no object whether or not the slot has a new occupant, the
\* unchecked lookup and the lookup by index give the slot's present occupant
\* (no object when the slot is empty); the id of a registered object gives
\* that object; an index beyond the index space gives no object.
C26_StaleReferenceRejected ==
    /\ \A o \in Constructed :
           LET id == reference[o]
           IN /\ GetNetworkObject(Cur, id, TRUE) = (IF o \in Registered THEN o ELSE None)
              /\ GetNetworkObject(Cur, id, FALSE) = Occupant(id.index)
              /\ GetNetworkObjectByIndex(Cur, id.index) = Occupant(id.index)
    /\ \A index \in Indices, version \in 0..(MaxObjects + 1), checkVersion \in BOOLEAN :
           Occupant(index) = None
               => /\ GetNetworkObject(Cur, [index |-> index, version |-> version],
                                      checkVersion) = None
                  /\ GetNetworkObjectByIndex(Cur, index) = None
    /\ \A index \in {0, MaxObjects + 1}, version \in 0..(MaxObjects + 1),
          checkVersion \in BOOLEAN :
           /\ GetNetworkObject(Cur, [index |-> index, version |-> version],
                               checkVersion) = None
           /\ GetNetworkObjectByIndex(Cur, index) = None

C26_Witness ==
    \E old \in Constructed \ Registered, new \in Registered :
        /\ reference[old].index = reference[new].index
        /\ reference[old].version # reference[new].version
        /\ GetNetworkObject(Cur, reference[old], TRUE) = None
        /\ GetNetworkObject(Cur, reference[old], FALSE) = new
        /\ \E index \in Indices : entries[index] = None /\ versions[index] > 0

\* ---------------------------------------------------------- handshake
HandshakeMessageIds == {"MSG_CONFIGURE", "MSG_SCENE_CLOCK"}

\* C27: a Configure or SceneClock processed while the client is uninitialized
\* is handled and captured whatever has been captured before (a repeated copy
\* replaces the earlier one, the other item is kept), and the replica is
\* constructed by that message exactly when the connection's clock is
\* synchronized and the other kind of message has been captured before: by the
\* second distinct message in either order, never by copies of the first.
C27_HandshakeAnyOrder ==
    [][\A c \in Connections, messageId \in HandshakeMessageIds, payload \in Payloads,
          external \in {"true", "false"} :
          (Uninitialized /\ Receive(c, messageId, payload, external))
          => /\ handled' = "true"
             /\ client' # <<>>
             /\ messageId = "MSG_CONFIGURE"
                    => /\ client'[1].serverSettings = MsgConfigure(payload).settings
                       /\ client'[1].ackMagic = MsgConfigure(payload).magic
                       /\ client'[1].initialClock = client[1].initialClock
                       /\ ReplicaLive' <=> /\ clockSynchronized[c]
                                           /\ client[1].initialClock # None
             /\ messageId = "MSG_SCENE_CLOCK"
                    => /\ client'[1].initialClock = MsgSceneClock(payload)
                       /\ client'[1].serverSettings = client[1].serverSettings
                       /\ client'[1].ackMagic = client[1].ackMagic
                       /\ ReplicaLive' <=> /\ clockSynchronized[c]
                                           /\ client[1].serverSettings # None]_vars

\* Synchronized by a Configure that followed a SceneClock with another payload.
C27_Witness ==
    /\ lastCall = [op |-> "ProcessMessage", from |-> "Uninitialized"]
    /\ ReplicaLive
    /\ calls = <<Call("LogMessagePayload", client[1].connection, "MSG_CONFIGURE", <<1>>)>>
    /\ client[1].serverSettings = 1
    /\ client[1].initialClock = 2
    /\ handled = "true"

\* ------------------------------------------------------------- flush
\* The objects UpdateNetworkObjects has to visit in state m: the occupants of
\* the flagged indices, by ascending index from index on.
RECURSIVE FlaggedOccupantsFrom(_, _)
FlaggedOccupantsFrom(m, index) ==
    IF index >= Len(m.networkObjectsDirty) THEN <<>>
    ELSE (IF m.networkObjectsDirty[index + 1] /\ index \in Indices
             /\ m.entries[index] # None
          THEN <<m.entries[index]>> ELSE <<>>)
         \o FlaggedOccupantsFrom(m, index + 1)

FlaggedIndices(m) ==
    {index \in 0..(Len(m.networkObjectsDirty) - 1) : m.networkObjectsDirty[index + 1]}

\* C28: UpdateNetworkObjects re-links and recomputes the world transform of
\* the occupants of the flagged indices, one after the other by ascending
\* index, each exactly once and in this order of the two calls; it calls
\* nothing for a flagged index without occupant and nothing for an unflagged
\* index; it clears exactly the flagged indices and leaves no flag set.
C28_FlushVisitsAscending ==
    [][Flush
          => LET expected == FlaggedOccupantsFrom(Cur, 0)
             IN /\ lastFlush'.relinked = expected
                /\ lastFlush'.cleared = FlaggedIndices(Cur)
                /\ Len(calls') = 2 * Len(expected)
                /\ \A k \in 1..Len(expected) :
                       /\ calls'[2 * k - 1] =
                              Call("UpdateObjectHierarchy", expected[k], "", <<>>)
                       /\ calls'[2 * k] =
                              Call("GetWorldTransform", expected[k], "", <<>>)
                /\ \A k, l \in 1..Len(expected) :
                       (k < l) => reference[expected[k]].index
                                      < reference[expected[l]].index
                /\ NoDirtyFlag(Cur')
                /\ Len(networkObjectsDirty') = Len(networkObjectsDirty)]_vars

\* Two objects re-linked in index order, the object registered later (on a
\* reused index) first.
C28_Witness ==
    /\ lastCall.op = "UpdateNetworkObjects"
    /\ \E i, j \in 1..Len(components) :
           /\ i < j
           /\ lastFlush.relinked = <<components[j], components[i]>>
    /\ Len(calls) = 4
    /\ calls[2] = Call("GetWorldTransform", lastFlush.relinked[1], "", <<>>)

\* ------------------------------------------------- dirty vector's size
\* C29: the dirty vector has an element for the index of every registered
\* object, so the write of QueueNetworkObjectUpdate stays inside the vector;
\* a queued update of a registered object sets the flag of its index.
C29_DirtyVectorCoversRegistered ==
    /\ \A o \in Registered : reference[o].index + 1 <= Len(networkObjectsDirty)
    /\ \A o \in Registered :
           LET queued == QueueNetworkObjectUpdate(Cur, o)
           IN /\ Len(queued.networkObjectsDirty) = Len(networkObjectsDirty)
              /\ queued.networkObjectsDirty[reference[o].index + 1]

\* An object added to a client after StartClient discarded the vector: the
\* vector grows again from empty to hold the reused index.
C29_Witness ==
    /\ mode = "Client"
    /\ Len(signals) = 1
    /\ signals[1].kind = "added"
    /\ signals[1].dirtyAtEntry = <<>>
    /\ reference[signals[1].object].version = 2
    /\ Len(networkObjectsDirty) = reference[signals[1].object].index + 1

\* ------------------------------------------------ recently-added set
\* C30: every NetworkId of the recently-added set is the id of a registered
\* object (it resolves version-checked), and the set is empty whenever the mode
\* is Server or Client.
C30_RecentlyAddedResolve ==
    /\ \A id \in recentlyAddedObjects :
           /\ GetNetworkObject(Cur, id, TRUE) # None
           /\ GetNetworkObject(Cur, id, TRUE) \in Registered
           /\ reference[GetNetworkObject(Cur, id, TRUE)] = id
    /\ mode \in {"Server", "Client"} => recentlyAddedObjects = {}

\* Two objects were added in Standalone mode and one of them was removed
\* before a tick: the set holds the other id only.
C30_Witness ==
    /\ mode = "Standalone"
    /\ Cardinality(recentlyAddedObjects) = 1
    /\ Len(signals) = 1
    /\ signals[1].kind = "removed"
    /\ addedSinceTick # {}
    /\ \A id \in recentlyAddedObjects : id # reference[signals[1].object]

\* ------------------------------------- standalone initialization, overall
\* C31 as claimed: when a scene tick has completed and the manager is in
\* Standalone mode, InitializeStandalone has been called on every registered
\* object since it was registered, whatever mode changes and additions went
\* before.
C31_AllInitializedAfterStandaloneTick ==
    (/\ lastCall.op \in TickOps
     /\ mode = "Standalone"
     /\ initializedStandalone # <<>>)
        => \A o \in Registered : o \in initializedStandalone[1]

\* ------------------------------------------ the handshake's connection
\* C32 as claimed: while the client is uninitialized, a message delivered on a
\* connection other than the one given to StartClient changes nothing of the
\* client state and sends nothing; a replica that a message constructs is bound
\* to the connection given to StartClient, that connection's clock is
\* synchronized, and the acknowledgement is sent on it.
C32_HandshakeOnClientConnection ==
    [][\A c \in Connections, messageId \in MessageIds, payload \in Payloads,
          external \in {"true", "false"} :
          (/\ Uninitialized
           /\ lastCall'.op = "ProcessMessage"
           /\ Receive(c, messageId, payload, external))
          => /\ c # client[1].connection
                    => /\ client' = client
                       /\ outbox' = <<>>
             /\ ReplicaLive'
                    => /\ client'[1].replica[1].connection = client[1].connection
                       /\ clockSynchronized[client[1].connection]
                       /\ Len(outbox') = 1
                       /\ outbox'[1].connection = client[1].connection]_vars

\* ------------------------------------------------ the replica's lifetime
SessionEnds == {"Stop", "StartStandalone", "StartServer", "StartClient"}

\* C33: while the client replica exists the client state holds the settings,
\* the initial clock and the magic token the replica was constructed and
\* acknowledged with. A step that removes or replaces the replica is Stop, a
\* StartX call, or DropConnection with the client's connection; every other
\* step, ticks included, leaves the client state as it is, and a message
\* received while the replica exists goes to the replica: nothing is captured,
\* logged or sent, and the value returned is never other than the replica's
\* answer.
C33_ReplicaStaysInPlace ==
    [][/\ ReplicaLive'
           => /\ client'[1].serverSettings # None
              /\ client'[1].initialClock # None
              /\ client'[1].ackMagic # None
              /\ client'[1].replica[1].settings = client'[1].serverSettings
              /\ client'[1].replica[1].initialClock = client'[1].initialClock
       /\ (ReplicaLive /\ client' # client)
           => \/ lastCall'.op \in SessionEnds
              \/ /\ lastCall'.op = "DropConnection"
                 /\ DoDropConnection(client[1].connection)
       /\ (ReplicaLive /\ lastCall'.op = "ProcessMessage")
           => /\ client' = client
              /\ calls' = <<>>
              /\ outbox' = <<>>
              /\ handled' \in {"true", "false"}
              /\ \A c \in Connections, messageId \in MessageIds, payload \in Payloads :
                     ~Receive(c, messageId, payload,
                              IF handled' = "true" THEN "false" ELSE "true")
       /\ (ReplicaLive /\ lastCall'.op \in TickOps)
           => /\ ReplicaLive'
              /\ CallsOf(calls', "ClientReplica::ProcessSceneUpdate") # {}]_vars

\* A Configure is delivered to a synchronized client and refused by the
\* replica: the settings collected by the handshake stay as they were.
C33_Witness ==
    /\ lastCall = [op |-> "ProcessMessage", from |-> "Synchronized"]
    /\ ReplicaLive
    /\ handled = "false"
    /\ calls = <<>>
    /\ client[1].ackMagic = 2
    /\ client[1].initialClock = 1

\* ------------------------------------------------- DropConnection's frame
\* Nothing of the manager, the registry or the transport changes, nothing is
\* called and nothing is sent.
NothingChanges ==
    /\ UNCHANGED <<managerVars, registryVars, clockSynchronized>>
    /\ outbox' = <<>>
    /\ calls' = <<>>
    /\ signals' = <<>>

\* C34: DropConnection(c) changes nothing when the manager is standalone, and
\* nothing when it is a client, with or without replica, and c is not the
\* connection given to StartClient; on a server it removes c from the server
\* replicator's connections and changes nothing else: the mode stays Server,
\* the replicator stays in place and there is no client state.
C34_DropConnectionFrame ==
    [][\A c \in Connections :
          (lastCall'.op = "DropConnection" /\ DoDropConnection(c))
          => /\ (client = <<>> /\ server = <<>>) => NothingChanges
             /\ (client # <<>> /\ client[1].connection # c) => NothingChanges
             /\ server # <<>>
                    => /\ mode' = "Server"
                       /\ client' = <<>>
                       /\ server' = <<[server[1] EXCEPT !.connections = @ \ {c}]>>
                       /\ UNCHANGED <<recentlyAddedObjects, registryVars,
                                      clockSynchronized>>
                       /\ outbox' = <<>>]_vars

\* A synchronized client after DropConnection with another connection.
C34_Witness ==
    /\ lastCall = [op |-> "DropConnection", from |-> "Synchronized"]
    /\ mode = "Client"
    /\ ReplicaLive
    /\ client[1].replica[1].connection = client[1].connection

====
